---- MODULE Spec2Model ----
(***************************************************************************)
(* Model of douban_notion_core.py: fetching a book page from the catalog,  *)
(* normalising its fields, building the record-store payload and           *)
(* submitting it with a bounded retry on read timeouts.                    *)
(*                                                                         *)
(* Python strings that the code inspects character by character are        *)
(* modelled as sequences of one-character strings; None is the sequence    *)
(* holding the single token "None", which is no character.                 *)
(***************************************************************************)
EXTENDS Integers, Sequences, FiniteSets, TLC

VARIABLES
    pc,            \* position of the running call
    entry,         \* the function the caller invoked
    calls,         \* the functions entered so far, in order
    isbn,          \* run_import / fetch_book_from_douban argument
    token,         \* run_import / create_notion_page argument
    database_id,   \* run_import / create_notion_page argument
    catalog,       \* what the catalog host answers to the GET
    book,          \* the dict fetch_book_from_douban returns
    properties,    \* the dict build_notion_properties returns
    attempt,       \* create_notion_page: the loop variable
    last_error,    \* create_notion_page: the last ReadTimeout caught
    resp,          \* create_notion_page: the response that ended the loop
    result,        \* the value the entry function returned
    err,           \* the exception the entry function raised
    log,           \* the network requests and sleeps performed, in order
    created,       \* records the store created on behalf of this call
    raw_pubdate,   \* convert_pubdate: the argument
    pubdate        \* convert_pubdate: the returned value

vars ==
    <<pc, entry, calls, isbn, token, database_id, catalog, book, properties,
      attempt, last_error, resp, result, err, log, created, raw_pubdate, pubdate>>

(***************************************************************************)
(* Bounds of the model.                                                    *)
(***************************************************************************)
MaxDateLen == 6

MaxNodes == 5

(***************************************************************************)
(* Python values and string primitives.                                    *)
(***************************************************************************)
None == <<"None">>

\* None where a dict or a JSON value is expected, and JSON null
Null == [null |-> TRUE]

\* a JSON integer
JsonInt(n) == [int |-> n]

\* "not v" for a string or None
Falsy(v) == v = None \/ v = <<>>

\* d.get(k) for a key holding a string or None; a missing key gives None
Get(d, k) == IF k \in DOMAIN d THEN d[k] ELSE None

\* d.get(k) or "" for a key holding a string or None
GetOrEmpty(d, k) == IF Falsy(Get(d, k)) THEN <<>> ELSE d[k]

\* d.get(k) or [] for a key holding a list; a list that is None is a missing key
GetOrList(d, k) == IF k \in DOMAIN d THEN d[k] ELSE <<>>

Digits == <<"0", "1", "2", "3", "4", "5", "6", "7", "8", "9">>

IsDigit(c) == \E i \in 1..10 : Digits[i] = c

DigitValue(c) == (CHOOSE i \in 1..10 : Digits[i] = c) - 1


Least(S) == CHOOSE i \in S : \A j \in S : i <= j

Greatest(S) == CHOOSE i \in S : \A j \in S : i >= j

\* str.lstrip(chars)
LStripChars(s, chars) ==
    LET kept == {i \in 1..Len(s) : s[i] \notin chars}
    IN  IF kept = {} THEN <<>> ELSE SubSeq(s, Least(kept), Len(s))

\* str.rstrip(chars)
RStripChars(s, chars) ==
    LET kept == {i \in 1..Len(s) : s[i] \notin chars}
    IN  IF kept = {} THEN <<>> ELSE SubSeq(s, 1, Greatest(kept))

\* the characters str.strip() and the regex class \s remove
Spaces == {" ", "\t", "\n", "\r"}

IsSpace(c) == c \in Spaces

LStrip(s) == LStripChars(s, Spaces)

RStrip(s) == RStripChars(s, Spaces)

\* str.strip()
Strip(s) == RStrip(LStrip(s))

\* str.split(sep) for a one-character separator: always at least one part
RECURSIVE Split(_, _)
Split(s, sep) ==
    LET at == {i \in 1..Len(s) : s[i] = sep}
    IN  IF at = {} THEN <<s>>
        ELSE <<SubSeq(s, 1, Least(at) - 1)>>
                \o Split(SubSeq(s, Least(at) + 1, Len(s)), sep)

\* the text of an int() literal once whitespace is stripped: an optional sign,
\* then digits, single underscores allowed between digits
IntBody(s) ==
    LET t == Strip(s)
    IN  IF t # <<>> /\ t[1] \in {"+", "-"} THEN Tail(t) ELSE t

\* int(s) does not raise ValueError
IntParses(s) ==
    LET b == IntBody(s)
    IN  /\ b # <<>>
        /\ IsDigit(b[1])
        /\ IsDigit(b[Len(b)])
        /\ \A i \in 1..Len(b) : IsDigit(b[i]) \/ b[i] = "_"
        /\ \A i \in 1..(Len(b) - 1) : ~(b[i] = "_" /\ b[i + 1] = "_")

RECURSIVE DigitsValue(_, _)
DigitsValue(b, acc) ==
    IF b = <<>> THEN acc
    ELSE IF b[1] = "_" THEN DigitsValue(Tail(b), acc)
    ELSE DigitsValue(Tail(b), 10 * acc + DigitValue(b[1]))

\* int(s), defined when IntParses(s)
IntValue(s) ==
    LET t == Strip(s)
        v == DigitsValue(IntBody(s), 0)
    IN  IF t[1] = "-" THEN 0 - v ELSE v

RECURSIVE NatDigits(_)
NatDigits(n) ==
    IF n < 10 THEN <<Digits[n + 1]>>
    ELSE Append(NatDigits(n \div 10), Digits[(n % 10) + 1])

RECURSIVE ZeroPad(_, _)
ZeroPad(s, w) == IF Len(s) >= w THEN s ELSE ZeroPad(<<"0">> \o s, w)

\* format(n, "0<w>d"): zero-padded to a minimum width w, the sign counted in
FormatD(n, w) ==
    IF n < 0 THEN <<"-">> \o ZeroPad(NatDigits(0 - n), w - 1)
    ELSE ZeroPad(NatDigits(n), w)

Max(a, b) == IF a >= b THEN a ELSE b

Min(a, b) == IF a <= b THEN a ELSE b

(***************************************************************************)
(* convert_pubdate                                                         *)
(***************************************************************************)
ParsedMonth(parts) ==
    IF Len(parts) >= 2 /\ IntParses(parts[2]) THEN IntValue(parts[2]) ELSE 1

ParsedDay(parts) ==
    IF Len(parts) = 3 /\ IntParses(parts[3]) THEN IntValue(parts[3]) ELSE 1

\* mutant: the month is clamped from below only
ClampMonth_NoUpper(month) == Max(1, month)

ClampMonth(month) == Max(1, Min(month, 12))

ClampDay(day) == Max(1, Min(day, 31))

convert_pubdate(raw) ==
    IF raw = None \/ raw = <<>> THEN None
    ELSE
        LET parts == Split(Strip(raw), "-")
        IN  IF ~IntParses(parts[1]) THEN None
            ELSE FormatD(IntValue(parts[1]), 4) \o <<"-">>
                    \o FormatD(ClampMonth(ParsedMonth(parts)), 2) \o <<"-">>
                    \o FormatD(ClampDay(ParsedDay(parts)), 2)

(***************************************************************************)
(* collapse_spaces and the property wrappers                               *)
(***************************************************************************)
\* re.sub(r"\s+", " ", text)
RECURSIVE CollapseRuns(_)
CollapseRuns(s) ==
    LET at == {i \in 1..Len(s) : IsSpace(s[i])}
    IN  IF at = {} THEN s
        ELSE SubSeq(s, 1, Least(at) - 1) \o <<" ">>
                \o CollapseRuns(LStrip(SubSeq(s, Least(at), Len(s))))

collapse_spaces(text) == IF Falsy(text) THEN <<>> ELSE Strip(CollapseRuns(text))

\* sep.join(list)
RECURSIVE Join(_, _)
Join(list, sep) ==
    IF list = <<>> THEN <<>>
    ELSE IF Len(list) = 1 THEN list[1]
    ELSE list[1] \o sep \o Join(Tail(list), sep)

\* mutant: an empty text still yields one text element, as title_property does
rich_text_property_NoEmpty(text) ==
    [rich_text |-> <<[text |-> [content |-> IF Falsy(text) THEN <<>> ELSE text]]>>]

rich_text_property(text) ==
    IF Falsy(text) THEN [rich_text |-> <<>>]
    ELSE [rich_text |-> <<[text |-> [content |-> text]]>>]

title_property(text) ==
    [title |-> <<[text |-> [content |-> IF Falsy(text) THEN <<>> ELSE text]]>>]

date_property(date_str) ==
    IF Falsy(date_str) THEN [date |-> Null] ELSE [date |-> [start |-> date_str]]

number_property(value) ==
    IF Falsy(value) THEN [number |-> Null]
    ELSE IF IntParses(value) THEN [number |-> JsonInt(IntValue(value))]
    ELSE [number |-> Null]

select_property(value) ==
    IF Falsy(value) THEN [select |-> Null] ELSE [select |-> [name |-> value]]

(***************************************************************************)
(* build_notion_properties.  The keys of the returned dict are the column  *)
(* names of the database, written here in pinyin:                          *)
(*   shuming = title, chubanshe = publisher, zuozhe = author,              *)
(*   yizhe = translator, chubanriqi = publish date, chupinfang = producer, *)
(*   fengmianleixing = binding, yeshu = page count.                        *)
(***************************************************************************)
author_str(b) ==
    LET authors == GetOrList(b, "author")
    IN  IF authors # <<>> THEN collapse_spaces(Join(authors, <<",", " ">>)) ELSE <<>>

translator_str(b) ==
    LET translators == GetOrList(b, "translator")
    IN  IF translators # <<>> THEN collapse_spaces(Join(translators, <<",", " ">>))
        ELSE <<>>

pages_str(b) == IF Get(b, "pages") # None THEN Strip(Get(b, "pages")) ELSE <<>>

build_notion_properties(b) ==
    [shuming         |-> title_property(GetOrEmpty(b, "title")),
     chubanshe       |-> rich_text_property(collapse_spaces(GetOrEmpty(b, "publisher"))),
     zuozhe          |-> rich_text_property(author_str(b)),
     yizhe           |-> rich_text_property(translator_str(b)),
     chubanriqi      |-> date_property(convert_pubdate(Get(b, "pubdate"))),
     chupinfang      |-> rich_text_property(GetOrEmpty(b, "producer")),
     fengmianleixing |-> select_property(GetOrEmpty(b, "binding")),
     yeshu           |-> number_property(pages_str(b))]


(***************************************************************************)
(* fetch_book_from_douban: the parsed page.  The children of the info div  *)
(* are a flat sequence of nodes: label spans (class "pl"), links, text     *)
(* nodes and line breaks.  The Chinese characters of the labels are        *)
(* written as one token each:                                              *)
(*   zuo zhe = author, yi zhe = translator, chu ban she = publisher,       *)
(*   chu ban nian = publication year, chu pin fang = producer,             *)
(*   zhuang zhen = binding, ye shu = page count, fwcolon = full-width ":". *)
(***************************************************************************)
Span(text) == [name |-> "span", text |-> text]

Link(text) == [name |-> "a", text |-> text]

Text(text) == [name |-> "#text", text |-> text]

Br == [name |-> "br", text |-> <<>>]

SpanOpen ==
    <<"<", "s", "p", "a", "n", " ", "c", "l", "a", "s", "s", "=", "\"", "p", "l",
      "\"", ">">>

SpanClose == <<"<", "/", "s", "p", "a", "n", ">">>

\* str(node) for a node that is neither a link nor a line break
NodeStr(n) == IF n.name = "span" THEN SpanOpen \o n.text \o SpanClose ELSE n.text

StartsWith(s, prefix) ==
    Len(s) >= Len(prefix) /\ SubSeq(s, 1, Len(prefix)) = prefix

\* str.replace(old, new)
RECURSIVE Replace(_, _, _)
Replace(s, old, new) ==
    LET at == {i \in 1..(Len(s) - Len(old) + 1) :
                    SubSeq(s, i, i + Len(old) - 1) = old}
    IN  IF at = {} THEN s
        ELSE SubSeq(s, 1, Least(at) - 1) \o new
                \o Replace(SubSeq(s, Least(at) + Len(old), Len(s)), old, new)

Colons == {":", "fwcolon"}

Nbsp == <<"&", "n", "b", "s", "p", ";">>

\* line 135: the cleaned text of a plain sibling is kept
KeepsText(cleaned) == cleaned # <<>> /\ cleaned # <<"/">>

\* lines 123-136: the value parts of the siblings that follow a label
RECURSIVE value_parts(_)
value_parts(siblings) ==
    IF siblings = <<>> THEN <<>>
    ELSE
        LET sibling == siblings[1]
            rest    == Tail(siblings)
        IN  IF sibling.name = "br" THEN <<>>
            ELSE IF sibling.name = "a"
            THEN LET text == Strip(sibling.text)
                 IN  (IF text # <<>> THEN <<text>> ELSE <<>>) \o value_parts(rest)
            ELSE LET text    == Strip(NodeStr(sibling))
                     cleaned == Strip(Replace(text, Nbsp, <<" ">>))
                 IN  (IF text # <<>> /\ KeepsText(cleaned) THEN <<cleaned>> ELSE <<>>)
                        \o value_parts(rest)

\* lines 138-139
raw_value(siblings) ==
    Strip(LStripChars(Strip(Join(value_parts(siblings), <<" ">>)), Colons))

\* lines 145-150: the names of an author or translator value
SplitNames(raw) ==
    LET cleaned == Replace(raw, <<" ", "/", " ">>, <<"/">>)
        NonBlank(v) == Strip(v) # <<>>
        kept == SelectSeq(Split(cleaned, "/"), NonBlank)
    IN  [i \in 1..Len(kept) |-> collapse_spaces(kept[i])]

\* re.sub(r"\D+", "", text)
DigitsOnly(s) == SelectSeq(s, IsDigit)

\* lines 144-169: the record after one label with a non-empty value
Route(rec, label, raw) ==
    IF StartsWith(label, <<"zuo", "zhe">>)
        THEN [rec EXCEPT !.author = SplitNames(raw)]
    ELSE IF StartsWith(label, <<"yi", "zhe">>)
        THEN [rec EXCEPT !.translator = SplitNames(raw)]
    ELSE IF StartsWith(label, <<"chu", "ban", "she">>)
        THEN [rec EXCEPT !.publisher = collapse_spaces(raw)]
    ELSE IF StartsWith(label, <<"chu", "ban", "nian">>)
        THEN [rec EXCEPT !.pubdate = raw]
    ELSE IF StartsWith(label, <<"chu", "pin", "fang">>)
        THEN [rec EXCEPT !.producer = collapse_spaces(raw)]
    ELSE IF StartsWith(label, <<"zhuang", "zhen">>)
        THEN [rec EXCEPT !.binding = collapse_spaces(raw)]
    ELSE IF StartsWith(label, <<"ye", "shu">>)
        THEN [rec EXCEPT !.pages = DigitsOnly(collapse_spaces(raw))]
    ELSE rec

\* lines 118-169: the loop over the label spans, from node i on
RECURSIVE ParseLabels(_, _, _)
ParseLabels(info_div, i, rec) ==
    IF i > Len(info_div) THEN rec
    ELSE IF info_div[i].name # "span" THEN ParseLabels(info_div, i + 1, rec)
    ELSE
        LET label == RStripChars(Strip(info_div[i].text), Colons)
            raw   == raw_value(SubSeq(info_div, i + 1, Len(info_div)))
        IN  IF raw = <<>> THEN ParseLabels(info_div, i + 1, rec)
            ELSE ParseLabels(info_div, i + 1, Route(rec, label, raw))

\* lines 109-115: the fields before the loop
EmptyFields ==
    [title |-> <<>>, publisher |-> <<>>, author |-> <<>>, translator |-> <<>>,
     pubdate |-> None, producer |-> None, binding |-> None, pages |-> None]

\* lines 94-182: the dict built from a page that has its title and its info div
ParsedBook(page) ==
    ParseLabels(page.info_div, 1,
                [EmptyFields EXCEPT !.title = collapse_spaces(Strip(page.title_tag))])

\* lines 81-105: the exception fetch_book_from_douban raises, "" when none.
\* Every raise is a RuntimeError; the names are those of the error taxonomy.
FetchError(page) ==
    IF page.exc THEN "TransportError"
    ELSE IF page.status_code = 404 THEN "NotFoundError"
    ELSE IF page.status_code # 200 THEN "UnexpectedStatusError"
    ELSE IF page.title_tag = None THEN "PageStructureError"
    ELSE IF ~page.has_info THEN "PageStructureError"
    ELSE ""


(***************************************************************************)
(* The calls as a state machine.  pc names the function about to run, or   *)
(* the step of create_notion_page's loop; "returned" and "raised" end the  *)
(* call.  Each network call and each sleep is one step, since these are    *)
(* the points where the outside world acts.                                *)
(***************************************************************************)
Event(ev, outcome) == [ev |-> ev, outcome |-> outcome]

\* line 375
IsbnRejected(i) == i = ""

\* line 322
DatabaseIdRejected(d) == d = ""

\* mutant: the headers are built without looking at the token
TokenRejected_Never(t) == FALSE

\* line 230, notion_headers
TokenRejected(t) == t = ""

\* mutant: one more attempt
MaxAttempts_Four == 3 + 1

\* line 332, range(3)
MaxAttempts == 3

\* mutant: every transport exception is retried
CaughtByRetry_Any(outcome) == outcome \in {"ReadTimeout", "ConnectionError"}

\* line 341: the exceptions the loop catches
CaughtByRetry(outcome) == outcome = "ReadTimeout"

\* the body the store returns with a 200: the created page
CreatedPage == [object |-> "page", parent |-> [database_id |-> database_id],
                properties |-> properties]

ErrorBody == [object |-> "error"]

Raise(e) == /\ err' = e
            /\ pc' = "raised"

\* the value a finished function hands to its caller
Return(next, value) ==
    IF entry = "run_import"
    THEN pc' = next /\ UNCHANGED result
    ELSE pc' = "returned" /\ result' = value

\* lines 375-376
RunImport ==
    /\ pc = "run_import"
    /\ calls' = Append(calls, "run_import")
    /\ IF IsbnRejected(isbn)
       THEN Raise("InvalidInputError")
       ELSE pc' = "fetch_book_from_douban" /\ UNCHANGED err
    /\ UNCHANGED <<entry, isbn, token, database_id, catalog, book, properties,
                   attempt, last_error, resp, result, log, created, raw_pubdate,
                   pubdate>>

\* mutant: a failed GET is sent a second time
GetRequests_Retried(page) ==
    IF page.exc THEN <<Event("GET", "exception"), Event("GET", "exception")>>
    ELSE <<Event("GET", "response")>>

\* line 82: the requests fetch_book_from_douban sends
GetRequests(page) ==
    <<Event("GET", IF page.exc THEN "exception" ELSE "response")>>

\* lines 71-182: one GET, then the parse
FetchBookFromDouban ==
    /\ pc = "fetch_book_from_douban"
    /\ calls' = Append(calls, "fetch_book_from_douban")
    /\ log' = log \o GetRequests(catalog)
    /\ IF FetchError(catalog) # ""
       THEN /\ Raise(FetchError(catalog))
            /\ UNCHANGED <<book, result>>
       ELSE /\ book' = ParsedBook(catalog)
            /\ Return("build_notion_properties", book')
            /\ UNCHANGED err
    /\ UNCHANGED <<entry, isbn, token, database_id, catalog, properties, attempt,
                   last_error, resp, created, raw_pubdate, pubdate>>

\* lines 278-311
BuildNotionProperties ==
    /\ pc = "build_notion_properties"
    /\ calls' = Append(calls, "build_notion_properties")
    /\ properties' = build_notion_properties(book)
    /\ Return("create_notion_page", properties')
    /\ UNCHANGED <<entry, isbn, token, database_id, catalog, book, attempt,
                   last_error, resp, err, log, created, raw_pubdate, pubdate>>

\* lines 322-332: the check of the database id, then the loop is entered
CreateNotionPage ==
    /\ pc = "create_notion_page"
    /\ calls' = Append(calls, "create_notion_page")
    /\ IF DatabaseIdRejected(database_id)
       THEN Raise("ConfigError")
       ELSE pc' = "post" /\ UNCHANGED err
    /\ attempt' = 0
    /\ UNCHANGED <<entry, isbn, token, database_id, catalog, book, properties,
                   last_error, resp, result, log, created, raw_pubdate, pubdate>>

\* line 336: notion_headers raises before the request is made
PostRejected ==
    /\ pc = "post"
    /\ TokenRejected(token)
    /\ Raise("AuthError")
    /\ UNCHANGED <<entry, calls, isbn, token, database_id, catalog, book,
                   properties, attempt, last_error, resp, result, log, created,
                   raw_pubdate, pubdate>>

\* lines 334-342: the request is sent and no response arrives in time; the
\* store may or may not have created the record by then
PostReadTimeout ==
    /\ pc = "post"
    /\ ~TokenRejected(token)
    /\ log' = Append(log, Event("POST", "ReadTimeout"))
    /\ \E stored \in BOOLEAN : created' = IF stored THEN created + 1 ELSE created
    /\ IF CaughtByRetry("ReadTimeout")
       THEN /\ last_error' = "ReadTimeout"
            /\ pc' = "sleep"
            /\ UNCHANGED err
       ELSE /\ Raise("ReadTimeout")
            /\ UNCHANGED last_error
    /\ UNCHANGED <<entry, calls, isbn, token, database_id, catalog, book,
                   properties, attempt, resp, result, raw_pubdate, pubdate>>

\* lines 334-339: the connection fails, the request never reaches the store;
\* the exception is not a ReadTimeout and leaves the function
PostConnectionError ==
    /\ pc = "post"
    /\ ~TokenRejected(token)
    /\ log' = Append(log, Event("POST", "ConnectionError"))
    /\ IF CaughtByRetry("ConnectionError")
       THEN /\ last_error' = "ConnectionError"
            /\ pc' = "sleep"
            /\ UNCHANGED err
       ELSE /\ Raise("ConnectionError")
            /\ UNCHANGED last_error
    /\ UNCHANGED <<entry, calls, isbn, token, database_id, catalog, book,
                   properties, attempt, resp, result, created, raw_pubdate,
                   pubdate>>

\* lines 334-340: a response arrives and the loop is left
PostResponse ==
    /\ pc = "post"
    /\ ~TokenRejected(token)
    /\ \E status \in {200, 400} :
        /\ log' = Append(log, Event("POST", IF status = 200 THEN "200" ELSE "400"))
        /\ resp' = [status_code |-> status,
                    json |-> IF status = 200 THEN CreatedPage ELSE ErrorBody]
        /\ created' = IF status = 200 THEN created + 1 ELSE created
    /\ pc' = "status_check"
    /\ UNCHANGED <<entry, calls, isbn, token, database_id, catalog, book,
                   properties, attempt, last_error, result, err, raw_pubdate,
                   pubdate>>

\* lines 343-351: the sleep after a caught timeout, then the next round of
\* the loop, or the loop's else clause once range(3) is used up
BackoffSleep ==
    /\ pc = "sleep"
    /\ log' = Append(log, Event("sleep", "2"))
    /\ attempt' = attempt + 1
    /\ IF attempt + 1 < MaxAttempts
       THEN pc' = "post" /\ UNCHANGED err
       ELSE Raise("TimeoutError")
    /\ UNCHANGED <<entry, calls, isbn, token, database_id, catalog, book,
                   properties, last_error, resp, result, created, raw_pubdate,
                   pubdate>>

\* lines 353-358 and, in run_import, lines 382-386
CheckStatus ==
    /\ pc = "status_check"
    /\ IF resp.status_code # 200
       THEN Raise("RemoteRejectionError") /\ UNCHANGED result
       ELSE /\ pc' = "returned"
            /\ result' = IF entry = "run_import"
                         THEN [book |-> book, properties |-> properties,
                               page |-> resp.json]
                         ELSE resp.json
            /\ UNCHANGED err
    /\ UNCHANGED <<entry, calls, isbn, token, database_id, catalog, book,
                   properties, attempt, last_error, resp, log, created,
                   raw_pubdate, pubdate>>

\* lines 185-223
ConvertPubdate ==
    /\ pc = "convert_pubdate"
    /\ calls' = Append(calls, "convert_pubdate")
    /\ pubdate' = convert_pubdate(raw_pubdate)
    /\ pc' = "returned"
    /\ UNCHANGED <<entry, isbn, token, database_id, catalog, book, properties,
                   attempt, last_error, resp, result, err, log, created,
                   raw_pubdate>>

(***************************************************************************)
(* Initial states: the arguments of the call and what the catalog host     *)
(* will answer.                                                            *)
(***************************************************************************)
NoPage ==
    [exc |-> FALSE, status_code |-> 200, title_tag |-> None, has_info |-> FALSE,
     info_div |-> <<>>]

Page(info_div) ==
    [exc |-> FALSE, status_code |-> 200, title_tag |-> <<"T">>, has_info |-> TRUE,
     info_div |-> info_div]

\* a page laid out as the catalog lays them out
FullInfo ==
    <<Span(<<" ", "zuo", "zhe">>), Text(<<":">>), Link(<<"A">>),
      Text(<<" ", "/", " ">>), Link(<<"B">>), Br,
      Span(<<"chu", "ban", "she", ":">>), Text(<<" ", "P", " ", " ", "Q">>), Br,
      Span(<<"chu", "ban", "nian", ":">>), Text(<<" ", "2", "0", "1", "8", "-", "8">>), Br,
      Span(<<"ye", "shu", ":">>), Text(<<" ", "3", "3", "8", "ye">>), Br,
      Span(<<"zhuang", "zhen", ":">>), Text(<<" ", "H">>), Br,
      Span(<<"I", "S", "B", "N", ":">>), Text(<<" ", "9", "7", "8">>), Br>>

Catalogs ==
    {[NoPage EXCEPT !.exc = TRUE],
     [NoPage EXCEPT !.status_code = 404],
     [NoPage EXCEPT !.status_code = 500],
     NoPage,
     [NoPage EXCEPT !.title_tag = <<"T">>],
     Page(<<>>),
     Page(FullInfo)}

Idle ==
    /\ calls = <<>>
    /\ attempt = 0
    /\ last_error = ""
    /\ resp = Null
    /\ result = Null
    /\ err = ""
    /\ log = <<>>
    /\ created = 0
    /\ pubdate = None

InitRunImport ==
    /\ entry = "run_import"
    /\ pc = "run_import"
    /\ isbn \in {"", "9787"}
    /\ token \in {"", "secret"}
    /\ database_id \in {"", "db"}
    /\ catalog \in Catalogs
    /\ book = Null
    /\ properties = Null
    /\ raw_pubdate = None
    /\ Idle

InitCreateNotionPage ==
    /\ entry = "create_notion_page"
    /\ pc = "create_notion_page"
    /\ isbn = ""
    /\ token \in {"", "secret"}
    /\ database_id \in {"", "db"}
    /\ catalog = NoPage
    /\ book = Null
    /\ properties \in {build_notion_properties(EmptyFields),
                       build_notion_properties(ParsedBook(Page(FullInfo)))}
    /\ raw_pubdate = None
    /\ Idle

Init == InitRunImport \/ InitCreateNotionPage

Next ==
    \/ RunImport
    \/ FetchBookFromDouban
    \/ BuildNotionProperties
    \/ CreateNotionPage
    \/ PostRejected
    \/ PostReadTimeout
    \/ PostConnectionError
    \/ PostResponse
    \/ BackoffSleep
    \/ CheckStatus

Spec == Init /\ [][Next]_vars

(***************************************************************************)
(* convert_pubdate applied to every bounded input.                         *)
(***************************************************************************)
DateChars == {"0", "1", "9", "-", "a", " "}

\* the strings of exactly n characters
StringsOfLen(chars, n) == [1..n -> chars]

InitDate ==
    /\ entry = "convert_pubdate"
    /\ pc = "convert_pubdate"
    /\ \/ raw_pubdate = None
       \/ \E n \in 0..MaxDateLen : raw_pubdate \in StringsOfLen(DateChars, n)
    /\ isbn = ""
    /\ token = ""
    /\ database_id = ""
    /\ catalog = NoPage
    /\ book = Null
    /\ properties = Null
    /\ Idle

NextDate == ConvertPubdate

SpecDate == InitDate /\ [][NextDate]_vars

(***************************************************************************)
(* build_notion_properties applied to records with any subset of the keys. *)
(***************************************************************************)
FieldChoices ==
    <<[key |-> "title",      values |-> {<<>>, <<"T">>}],
      [key |-> "publisher",  values |-> {<<>>, <<" ", "P", " ", " ", "Q">>}],
      [key |-> "author",     values |-> {<<>>, << <<"A">> >>, << <<"A">>, <<"B">> >>}],
      [key |-> "translator", values |-> {<<>>, << <<"C">> >>}],
      [key |-> "pubdate",    values |-> {None, <<>>, <<"1", "-", "9">>, <<"a">>}],
      [key |-> "producer",   values |-> {None, <<"R">>}],
      [key |-> "binding",    values |-> {None, <<>>, <<"H">>}],
      [key |-> "pages",      values |-> {None, <<>>, <<"1", "2">>, <<"a">>}]>>

\* the dicts that hold, for each of the first i keys, nothing or one of its values
RECURSIVE BooksFrom(_)
BooksFrom(i) ==
    IF i = 0 THEN {[k \in {} |-> None]}
    ELSE LET shorter == BooksFrom(i - 1)
             f       == FieldChoices[i]
         IN  shorter \cup {b @@ (f.key :> v) : b \in shorter, v \in f.values}

Books == BooksFrom(Len(FieldChoices))

InitPayload ==
    /\ entry = "build_notion_properties"
    /\ pc = "build_notion_properties"
    /\ book \in Books
    /\ isbn = ""
    /\ token = ""
    /\ database_id = ""
    /\ catalog = NoPage
    /\ properties = Null
    /\ raw_pubdate = None
    /\ Idle

NextPayload == BuildNotionProperties

SpecPayload == InitPayload /\ [][NextPayload]_vars

(***************************************************************************)
(* fetch_book_from_douban applied to every bounded info div.               *)
(***************************************************************************)
InfoNodes ==
    {Span(<<"zuo", "zhe", ":">>), Span(<<"yi", "zhe">>), Link(<<"A">>),
     Link(<<"B">>), Text(<<":">>), Text(<<" ", "/", " ">>), Br}

\* the info divs of exactly n nodes
InfoDivsOfLen(n) == [1..n -> InfoNodes]

InitFetch ==
    /\ entry = "fetch_book_from_douban"
    /\ pc = "fetch_book_from_douban"
    /\ isbn = "9787"
    /\ \E n \in 0..MaxNodes : \E d \in InfoDivsOfLen(n) : catalog = Page(d)
    /\ token = ""
    /\ database_id = ""
    /\ book = Null
    /\ properties = Null
    /\ raw_pubdate = None
    /\ Idle

NextFetch == FetchBookFromDouban

SpecFetch == InitFetch /\ [][NextFetch]_vars

(***************************************************************************)
(* Properties of run_import and create_notion_page.                        *)
(***************************************************************************)
IsPost(e) == e.ev = "POST"

IsSleep(e) == e.ev = "sleep"

IsGet(e) == e.ev = "GET"

Posts == SelectSeq(log, IsPost)

Sleeps == SelectSeq(log, IsSleep)

Gets == SelectSeq(log, IsGet)

PostOutcomes == [i \in 1..Len(Posts) |-> Posts[i].outcome]

Done == pc \in {"returned", "raised"}

SubmitCalled == \E i \in 1..Len(calls) : calls[i] = "create_notion_page"

\* the page create_notion_page handed back, once the entry function returned
ReturnedPage == IF entry = "run_import" THEN result.page ELSE result

\* C1: create_notion_page makes at most 3 submission attempts; two read
\* timeouts followed by a success return that response after exactly two
\* sleeps; three read timeouts end in TimeoutError with no 4th attempt.
C1_AtMostThreeAttempts ==
    /\ Len(Posts) <= 3
    /\ PostOutcomes = <<"ReadTimeout", "ReadTimeout", "200">> =>
        /\ pc \in {"status_check", "returned"}
        /\ Len(Sleeps) = 2
        /\ resp.status_code = 200
        /\ pc = "returned" => (ReturnedPage = resp.json /\ err = "")
    /\ PostOutcomes = <<"ReadTimeout", "ReadTimeout", "ReadTimeout">> =>
        /\ pc \in {"sleep", "raised"}
        /\ pc = "raised" => err = "TimeoutError"

\* three read timeouts have ended the call
C1_Witness ==
    /\ pc = "raised"
    /\ err = "TimeoutError"
    /\ PostOutcomes = <<"ReadTimeout", "ReadTimeout", "ReadTimeout">>

\* C2: a run_import call creates exactly one record in the store or none:
\* at most one record is ever created by the call, and none when the call
\* ends in an error.
C2_OneRecordOrNone ==
    entry = "run_import" =>
        /\ created <= 1
        /\ pc = "raised" => created = 0

ImportOrder ==
    <<"run_import", "fetch_book_from_douban", "build_notion_properties",
      "create_notion_page">>

\* C3: run_import runs fetch, payload build and submit in this order and the
\* first failure aborts the call; an empty identifier fails with
\* InvalidInputError before any network request; no create-record request
\* is sent unless the fetch succeeded and produced a record; the catalog GET
\* is issued at most once, and exactly once by the time a call with a
\* non-empty identifier ends; on success the result holds the fetched
\* record, the payload built from it and the store's response.
C3_StepOrder ==
    entry = "run_import" =>
        /\ Len(calls) <= 4
        /\ calls = SubSeq(ImportOrder, 1, Len(calls))
        /\ isbn = "" => log = <<>>
        /\ (isbn = "" /\ Done) => (pc = "raised" /\ err = "InvalidInputError")
        /\ Posts # <<>> =>
            /\ ~catalog.exc
            /\ catalog.status_code = 200
            /\ book # Null
            /\ log[1] = Event("GET", "response")
        /\ Len(Gets) <= 1
        /\ (isbn # "" /\ Done) => Len(Gets) = 1
        /\ err # "" => pc = "raised"
        /\ (pc = "raised" /\ Len(calls) = 2) => (book = Null /\ properties = Null)
        /\ pc = "returned" =>
            /\ calls = ImportOrder
            /\ result.book = ParsedBook(catalog)
            /\ result.properties = build_notion_properties(result.book)
            /\ resp.status_code = 200
            /\ result.page = resp.json
            /\ result.page.properties = result.properties

\* a run_import call has returned the record of the full page
C3_Witness ==
    /\ entry = "run_import"
    /\ pc = "returned"
    /\ result.book.title = <<"T">>
    /\ result.book.pages = <<"3", "3", "8">>
    /\ result.page.object = "page"

NothingSent ==
    /\ Posts = <<>>
    /\ Sleeps = <<>>
    /\ attempt = 0
    /\ created = 0

\* C4 as stated: create_notion_page called with an empty token fails with
\* AuthError, and called with an empty database id fails with ConfigError,
\* in both cases with no request sent, no sleep and no retry.
C4_EmptyArguments ==
    (Done /\ SubmitCalled) =>
        /\ token = "" => (pc = "raised" /\ err = "AuthError" /\ NothingSent)
        /\ database_id = "" => (pc = "raised" /\ err = "ConfigError" /\ NothingSent)

\* C4 as amended: called with an empty database id it fails with
\* ConfigError, whatever the token; called with an empty token and a
\* non-empty database id it fails with AuthError; in both cases with no
\* request sent, no sleep and no retry.
C4_EmptyArgumentsInOrder ==
    (Done /\ SubmitCalled) =>
        /\ (token = "" /\ database_id # "") =>
                (pc = "raised" /\ err = "AuthError" /\ NothingSent)
        /\ database_id = "" => (pc = "raised" /\ err = "ConfigError" /\ NothingSent)

\* create_notion_page was called with an empty token only, and has failed
C4_Witness ==
    /\ Done
    /\ SubmitCalled
    /\ token = ""
    /\ database_id # ""
    /\ err = "AuthError"

\* C5: in create_notion_page only a read timeout leads to another attempt:
\* another transport exception ends the call at once with that exception,
\* nothing being sent or slept after it; the first response ends the loop,
\* nothing being sent or slept after it; and a non-200 response yields
\* RemoteRejectionError whether or not earlier attempts timed out.
C5_OnlyTimeoutRetried ==
    /\ \A i \in 1..Len(log) :
        (IsPost(log[i]) /\ log[i].outcome = "ConnectionError") =>
            (i = Len(log) /\ pc = "raised" /\ err = "ConnectionError")
    /\ \A i \in 1..Len(log) :
        (IsPost(log[i]) /\ log[i].outcome \in {"200", "400"}) =>
            (i = Len(log) /\ pc \in {"status_check", "returned", "raised"})
    /\ \A i \in 1..(Len(Posts) - 1) : Posts[i].outcome = "ReadTimeout"
    /\ (Done /\ Posts # <<>> /\ Posts[Len(Posts)].outcome = "400") =>
            (pc = "raised" /\ err = "RemoteRejectionError")

\* a 400 after one read timeout has ended the call
C5_Witness ==
    /\ pc = "raised"
    /\ err = "RemoteRejectionError"
    /\ PostOutcomes = <<"ReadTimeout", "400">>

\* C9: the backoff sleep happens only between attempts: once the call has
\* ended, the last thing it did on the network was not a sleep, and it slept
\* at most once less than it attempted.
C9_SleepOnlyBetweenAttempts ==
    (Done /\ Posts # <<>>) =>
        /\ ~IsSleep(log[Len(log)])
        /\ Len(Sleeps) <= Len(Posts) - 1

(***************************************************************************)
(* Properties of build_notion_properties.                                  *)
(***************************************************************************)
PayloadKeys ==
    {"shuming", "chubanshe", "zuozhe", "yizhe", "chubanriqi", "chupinfang",
     "fengmianleixing", "yeshu"}

EmptyRichText == [rich_text |-> <<>>]

\* the page count the claim describes
ClaimedNumber ==
    LET pages == Get(book, "pages")
    IN  IF pages = None \/ pages = <<>> \/ ~IntParses(pages) THEN Null
        ELSE JsonInt(IntValue(pages))

\* C8: build_notion_properties succeeds on every record, whichever subset of
\* its keys is present, and returns a mapping with exactly the 8 fixed keys;
\* an absent or empty optional field maps to its wrapper's empty
\* representation, and the page count is the integer value of the pages
\* string, or null when that string is empty, absent or no integer.
C8_TotalEightKeys ==
    (entry = "build_notion_properties" /\ pc = "returned") =>
        /\ result = properties
        /\ DOMAIN properties = PayloadKeys
        /\ DOMAIN properties.shuming = {"title"}
        /\ Len(properties.shuming.title) = 1
        /\ Falsy(Get(book, "title")) =>
                properties.shuming.title[1].text.content = <<>>
        /\ Falsy(Get(book, "publisher")) => properties.chubanshe = EmptyRichText
        /\ GetOrList(book, "author") = <<>> => properties.zuozhe = EmptyRichText
        /\ GetOrList(book, "translator") = <<>> => properties.yizhe = EmptyRichText
        /\ Falsy(Get(book, "producer")) => properties.chupinfang = EmptyRichText
        /\ Falsy(Get(book, "pubdate")) => properties.chubanriqi = [date |-> Null]
        /\ Falsy(Get(book, "binding")) =>
                properties.fengmianleixing = [select |-> Null]
        /\ properties.yeshu = [number |-> ClaimedNumber]

\* a record holding only a title and a page count has been mapped
C8_Witness ==
    /\ entry = "build_notion_properties"
    /\ pc = "returned"
    /\ DOMAIN book = {"title", "pages"}
    /\ book.pages = <<"1", "2">>
    /\ properties.yeshu = [number |-> JsonInt(12)]
    /\ properties.chubanshe = EmptyRichText
    /\ properties.chubanriqi = [date |-> Null]

(***************************************************************************)
(* Properties of fetch_book_from_douban.                                   *)
(***************************************************************************)
IsAuthorLabel(node) ==
    /\ node.name = "span"
    /\ StartsWith(RStripChars(Strip(node.text), Colons), <<"zuo", "zhe">>)

IsSlashText(node) == node.name = "#text" /\ Strip(node.text) = <<"/">>

IsColonText(node) == node.name = "#text" /\ Strip(node.text) = <<":">>

\* the siblings of the first node up to the first line break
FirstLine(info_div) ==
    LET brs == {i \in 1..Len(info_div) : info_div[i].name = "br"}
    IN  SubSeq(info_div, 2, Least(brs) - 1)

\* the first line without the colon that may follow the label
NameNodes(info_div) ==
    LET line == FirstLine(info_div)
    IN  IF line # <<>> /\ IsColonText(line[1]) THEN Tail(line) ELSE line

\* the info div starts with the only author label, followed before the line
\* break by two or more linked names separated by lone "/" text siblings
AuthorLine ==
    LET d == catalog.info_div
    IN  /\ Len(d) >= 1
        /\ IsAuthorLabel(d[1])
        /\ \A i \in 2..Len(d) : ~IsAuthorLabel(d[i])
        /\ \E i \in 1..Len(d) : d[i].name = "br"
        /\ LET names == NameNodes(d)
           IN  /\ Len(names) >= 3
               /\ Len(names) % 2 = 1
               /\ \A i \in 1..Len(names) :
                    IF i % 2 = 1
                    THEN names[i].name = "a" /\ Strip(names[i].text) # <<>>
                    ELSE IsSlashText(names[i])

LinkedNames ==
    LET names == NameNodes(catalog.info_div)
    IN  [k \in 1..((Len(names) + 1) \div 2) |-> Strip(names[2 * k - 1].text)]

\* C10: when the author label is followed, before the line break, by N >= 2
\* linked names separated by lone "/" text siblings, the record's authors
\* are exactly these N names, one element per name, in document order.
C10_OneAuthorPerLink ==
    (entry = "fetch_book_from_douban" /\ pc = "returned" /\ AuthorLine) =>
        /\ Len(book.author) = Len(LinkedNames)
        /\ book.author = LinkedNames

(***************************************************************************)
(* Properties of convert_pubdate.                                          *)
(***************************************************************************)
RawParts == Split(raw_pubdate, "-")

ThreeIntSegments ==
    /\ raw_pubdate # None
    /\ Len(RawParts) = 3
    /\ \A i \in 1..3 : IntParses(RawParts[i])

\* the last two characters of a produced date
DayPart(d) == SubSeq(d, Len(d) - 1, Len(d))

\* the two characters before the last separator
MonthPart(d) == SubSeq(d, Len(d) - 4, Len(d) - 3)

\* everything before the month's separator
YearPart(d) == SubSeq(d, 1, Len(d) - 6)

AllDigits(s) == \A i \in 1..Len(s) : IsDigit(s[i])

Clamped(v, lo, hi) == IF v < lo THEN lo ELSE IF v > hi THEN hi ELSE v

\* C6: for an input of three '-'-separated integer segments the day of the
\* input is ignored and the result's day part is 01.
C6_DayIgnored ==
    (pc = "returned" /\ ThreeIntSegments) => DayPart(pubdate) = <<"0", "1">>

\* the cases in which the claim says the result is absent
AbsentCase ==
    \/ raw_pubdate = None
    \/ raw_pubdate = <<>>
    \/ ~IntParses(RawParts[1])

\* the month the claim describes
ClaimedMonth ==
    IF Len(RawParts) >= 2 /\ IntParses(RawParts[2])
    THEN Clamped(IntValue(RawParts[2]), 1, 12)
    ELSE 1

DateTail(d) ==
    /\ d[Len(d) - 2] = "-"
    /\ d[Len(d) - 5] = "-"
    /\ AllDigits(MonthPart(d))
    /\ AllDigits(DayPart(d))
    /\ AllDigits(YearPart(d))
    /\ IntValue(MonthPart(d)) = ClaimedMonth
    /\ IntValue(DayPart(d)) \in 1..31

====
